---- MODULE Spec2Model ----
(***************************************************************************)
(* Recipe store and permission model of the spin-coater controller        *)
(* (GUI_spin_coater.py, class SpinCoaterGUI).                              *)
(*                                                                         *)
(* Text (recipe names, user names, identifiers, list item texts) is a      *)
(* sequence of one-character strings, so that startswith, concatenation    *)
(* and the A-Z sort are computed as Python computes them.  The empty       *)
(* sequence is both the empty string and None: the code only ever tests    *)
(* these values for truthiness.                                            *)
(*                                                                         *)
(* A Python dict is a sequence of entries [k, v] in insertion order.       *)
(*                                                                         *)
(* The execution side (class MotorWorker, and start_process, stop_process, *)
(* on_finished and the queue handlers of SpinCoaterGUI) is modelled with   *)
(* one record per worker thread; MotorWorker.run advances one statement    *)
(* group at a time, so that stop() interleaves with it as the two threads  *)
(* do.                                                                     *)
(***************************************************************************)
EXTENDS Integers, Sequences, FiniteSets, TLC

VARIABLES
    phase,          \* "closed": the application is not running; "open": the window is up
    recipes_json,   \* the file recipes.json: dict key -> record
    users_json,     \* the file users.json: list of user names
    history_csv,    \* the rows of history.csv after the header row
    saved_recipes,  \* self.saved_recipes: dict id -> record
    users,          \* self.users
    current_user,   \* self.user_combo.currentText()
    recipe_list,    \* the items of self.recipe_list
    issued,         \* the identifiers uuid.uuid4() has produced so far
    result,         \* what the last save_recipe, delete_recipe or start_process worked
                    \* on and how it returned (none after any other handler)
    queue_list,     \* the items of self.queue_list
    threads,        \* the MotorWorker threads that exist; the last one is self.worker
    start_btn,      \* self.start_btn.isEnabled()
    stop_btn,       \* self.stop_btn.isEnabled()
    SERIAL_AVAILABLE    \* whether `import serial` succeeded

\* The recipe side and the execution side of the window.
rvars == <<phase, recipes_json, users_json, history_csv, saved_recipes, users,
           current_user, recipe_list, issued, result>>
evars == <<queue_list, threads, start_btn, stop_btn, SERIAL_AVAILABLE>>

vars == <<phase, recipes_json, users_json, history_csv, saved_recipes, users,
          current_user, recipe_list, issued, result,
          queue_list, threads, start_btn, stop_btn, SERIAL_AVAILABLE>>

----------------------------------------------------------------------------
(* Bounds *)

MaxIds == 2         \* identifiers uuid4 can hand out in one behaviour
MaxLog == 2         \* rows history.csv can hold

----------------------------------------------------------------------------
(* Text *)

None == <<>>

Dashes == <<"-", "-", "-">>
HeaderPrivate == <<"-", "-", "-", " ", "M", "y", " ", "P", "r", "i", "v", "a", "t", "e",
                   " ", "R", "e", "c", "i", "p", "e", "s", " ", "-", "-", "-">>
HeaderShared == <<"-", "-", "-", " ", "S", "h", "a", "r", "e", "d", " ", "R", "e", "c",
                  "i", "p", "e", "s", " ", "(", "A", "l", "l", " ", "U", "s", "e", "r",
                  "s", ")", " ", "-", "-", "-">>
Unknown == <<"U", "n", "k", "n", "o", "w", "n">>

\* The characters of recipe names, in code point order.
Alphabet == <<" ", "(", ")", "-", "A", "B">>

Ord(c) == CHOOSE i \in 1..Len(Alphabet) : Alphabet[i] = c

\* str.startswith
StartsWith(text, prefix) ==
    /\ Len(text) >= Len(prefix)
    /\ SubSeq(text, 1, Len(prefix)) = prefix

\* Python's < on str: lexicographic by code point.
RECURSIVE StrLess(_, _)
StrLess(a, b) ==
    IF b = <<>> THEN FALSE
    ELSE IF a = <<>> THEN TRUE
    ELSE IF Head(a) = Head(b) THEN StrLess(Tail(a), Tail(b))
    ELSE Ord(Head(a)) < Ord(Head(b))

----------------------------------------------------------------------------
(* Input domains *)

IdOf(i) == <<"u", ToString(i)>>
Ids == {IdOf(i) : i \in 1..MaxIds}

Tom == <<"T", "o", "m">>
Amy == <<"A", "m", "y">>
UserNames == {Tom, Amy}

NameA == <<"A">>
NameDash == <<"-", "-", "-", "B">>
Names == {NameA, NameDash}      \* texts of list items
FormNames == {NameA, <<>>}      \* name_input.text(): a name, or empty

\* The (speed, duration, acceleration) typed into the form's spin boxes.
Settings == {<<1000, 1, 100>>}

----------------------------------------------------------------------------
(* dict *)

Keys(d) == {d[i].k : i \in DOMAIN d}
Has(d, key) == key \in Keys(d)
Lookup(d, key) == d[CHOOSE i \in DOMAIN d : d[i].k = key].v
Entry(key, val) == [k |-> key, v |-> val]

\* d[key] = val: an existing key keeps its position, a new key goes last.
Put(d, key, val) ==
    IF Has(d, key)
    THEN [i \in DOMAIN d |-> IF d[i].k = key THEN Entry(key, val) ELSE d[i]]
    ELSE Append(d, Entry(key, val))

\* del d[key]
Del(d, key) == SelectSeq(d, LAMBDA e : e.k # key)

\* dict.get(field, default) on a record
Get(data, field, default) == IF field \in DOMAIN data THEN data[field] ELSE default

----------------------------------------------------------------------------
(* Records *)

\* (mutant) the checkbox is not stored: every record is written as shared
Recipe_AlwaysShared(name, speed, duration, acceleration, author, shared) ==
    [name |-> name, speed |-> speed, duration |-> duration,
     acceleration |-> acceleration, author |-> author, shared |-> TRUE]

\* The record save_recipe stores (and json.dump writes).
Recipe(name, speed, duration, acceleration, author, shared) ==
    [name |-> name, speed |-> speed, duration |-> duration,
     acceleration |-> acceleration, author |-> author, shared |-> shared]

\* A record of the old file format: keyed by its name, with no name field.
LegacyRecipe(speed, duration, acceleration, author, shared) ==
    [speed |-> speed, duration |-> duration,
     acceleration |-> acceleration, author |-> author, shared |-> shared]

\* A row of history.csv (the timestamp column is the wall clock and is left out).
LogRow(user, verb, name) == [user |-> user, verb |-> verb, name |-> name]

\* What the last save_recipe or delete_recipe worked on and how it returned: the
\* recipe_id it resolved, the author of the stored recipe it found, the values in
\* the form (save_recipe), and the return point.
NoForm == <<>>
Form(name, speed, duration, acceleration, shared) ==
    [name |-> name, speed |-> speed, duration |-> duration,
     acceleration |-> acceleration, shared |-> shared]
NoResult == [op |-> "none", id |-> None, author |-> None, form |-> NoForm, outcome |-> "none"]
Result(op, id, author, form, outcome) ==
    [op |-> op, id |-> id, author |-> author, form |-> form, outcome |-> outcome]

----------------------------------------------------------------------------
(* refresh_recipe_list *)

Item(text, data, enabled) == [text |-> text, data |-> data, enabled |-> enabled]

\* list.sort(key=lambda x: x[1]['name']): stable, ascending.
InsertSorted(sorted, e) ==
    LET n == Cardinality({i \in DOMAIN sorted : ~StrLess(e.v.name, sorted[i].v.name)})
    IN  SubSeq(sorted, 1, n) \o <<e>> \o SubSeq(sorted, n + 1, Len(sorted))

RECURSIVE SortByName(_)
SortByName(s) ==
    IF Len(s) <= 1 THEN s
    ELSE InsertSorted(SortByName(SubSeq(s, 1, Len(s) - 1)), s[Len(s)])

\* Shared pool: every shared recipe, mine included.
InSharedPool(data, user) == Get(data, "shared", FALSE)

\* (mutant) the private pool takes every recipe that is not shared
InPrivatePool_AnyAuthor(data, user) == ~Get(data, "shared", FALSE)

\* Private pool: not shared and authored by the current user.
InPrivatePool(data, user) ==
    /\ ~Get(data, "shared", FALSE)
    /\ Get(data, "author", Unknown) = user

PrivateItems(pool) ==
    IF pool = <<>> THEN <<>>
    ELSE <<Item(HeaderPrivate, None, FALSE)>>
         \o [i \in DOMAIN pool |-> Item(pool[i].v.name, pool[i].k, TRUE)]

Spacer(private, shared) ==
    IF private # <<>> /\ shared # <<>> THEN <<Item(<<>>, None, FALSE)>> ELSE <<>>

DisplayName(data, user) ==
    IF data.author # user
    THEN data.name \o <<" ", "(">> \o data.author \o <<")">>
    ELSE data.name

SharedItems(pool, user) ==
    IF pool = <<>> THEN <<>>
    ELSE <<Item(HeaderShared, None, FALSE)>>
         \o [i \in DOMAIN pool |-> Item(DisplayName(pool[i].v, user), pool[i].k, TRUE)]

refresh_recipe_list(store, user) ==
    IF user = <<>> THEN <<>>
    ELSE LET my_private_recipes ==
                 SortByName(SelectSeq(store, LAMBDA e : InPrivatePool(e.v, user)))
             all_shared_recipes ==
                 SortByName(SelectSeq(store, LAMBDA e : InSharedPool(e.v, user)))
         IN  PrivateItems(my_private_recipes)
             \o Spacer(my_private_recipes, all_shared_recipes)
             \o SharedItems(all_shared_recipes, user)

----------------------------------------------------------------------------
(* load_data *)

\* uuid.uuid4(): an identifier that was never produced before.  Identifiers are
\* only ever compared for equality, so the first unused one stands for any.
FreshIds(used) ==
    IF Ids \ used = {} THEN {}
    ELSE {IdOf(CHOOSE i \in 1..MaxIds :
                  /\ IdOf(i) \notin used
                  /\ \A j \in 1..(i - 1) : IdOf(j) \in used)}

IsLegacy(val) == "name" \notin DOMAIN val

\* The positions of raw_data that hold old-format records.
LegacyPositions(raw_data) == {i \in DOMAIN raw_data : IsLegacy(raw_data[i].v)}

\* val['name'] = key
WithName(val, key) ==
    [f \in DOMAIN val \cup {"name"} |-> IF f = "name" THEN key ELSE val[f]]

\* (mutant) an old-format record stays under its old key
MigratedKey_KeepKey(entry, new_id) == entry.k

\* The key one record of raw_data is stored under: a new identifier for an
\* old-format record, its own key otherwise.
MigratedKey(entry, new_id) == IF IsLegacy(entry.v) THEN new_id ELSE entry.k

\* The record stored for one record of raw_data.
MigratedVal(entry) == IF IsLegacy(entry.v) THEN WithName(entry.v, entry.k) ELSE entry.v

\* The migration loop; new_id[i] is what uuid4 returns at position i.
RECURSIVE Migrate(_, _, _)
Migrate(raw_data, new_id, n) ==
    IF n = 0 THEN <<>>
    ELSE Put(Migrate(raw_data, new_id, n - 1),
             MigratedKey(raw_data[n], new_id[n]),
             MigratedVal(raw_data[n]))

\* What uuid4 can return during one load: one call per old-format record, each
\* after the calls for the records before it.
NewIdChoices(raw_data, used) ==
    {f \in [DOMAIN raw_data -> Ids \cup {None}] :
        \A i \in DOMAIN raw_data :
            IF i \in LegacyPositions(raw_data)
            THEN f[i] \in FreshIds(used \cup {f[j] : j \in {k \in LegacyPositions(raw_data) : k < i}})
            ELSE f[i] = None}

load_data ==
    /\ phase = "closed"
    /\ \E new_id \in NewIdChoices(recipes_json, issued) :
          /\ saved_recipes' = Migrate(recipes_json, new_id, Len(recipes_json))
          /\ issued' = issued \cup {new_id[i] : i \in LegacyPositions(recipes_json)}
    /\ users' = users_json
    /\ current_user' = <<>>
    /\ recipe_list' = refresh_recipe_list(saved_recipes', current_user')
    /\ phase' = "open"
    /\ result' = NoResult
    /\ UNCHANGED <<recipes_json, users_json, history_csv>>
    /\ UNCHANGED evars

----------------------------------------------------------------------------
(* Operator selection *)

\* user_combo.currentTextChanged -> refresh_recipe_list
select_user(u) ==
    /\ phase = "open"
    /\ u \in {users[i] : i \in DOMAIN users}
    /\ u # current_user
    /\ current_user' = u
    /\ recipe_list' = refresh_recipe_list(saved_recipes, u)
    /\ result' = NoResult
    /\ UNCHANGED <<phase, recipes_json, users_json, history_csv, saved_recipes, users, issued>>
    /\ UNCHANGED evars

----------------------------------------------------------------------------
(* save_recipe *)

\* self.recipe_list.currentItem() is an input of save_recipe and delete_recipe:
\* <<>> for None, <<item>> for an item.  The handlers are the recipe store's
\* operations and take whatever item their caller's list holds: no item, or an
\* item made for any identifier that has been handed out, whether or not the
\* recipe is still stored or is visible to the current operator.
CurrentItems(known) ==
    {<<>>}
    \cup {<<Item(text, id, TRUE)>> : text \in Names, id \in known}

\* The recipe_id save_recipe takes from the current item: none without a current
\* item, for an item whose text starts with "---", or for an item without data.
SelectedId(cur) ==
    IF /\ cur # <<>>
       /\ ~StartsWith(cur[1].text, Dashes)
       /\ cur[1].data # None
    THEN cur[1].data
    ELSE None

\* (mutant) no permission rule
CanModify_Always(existing_data, user) == TRUE

\* (mutant) only the author may modify
CanModify_AuthorOnly(existing_data, user) == Get(existing_data, "author", None) = user

\* Rule: can only modify if (I am author) OR (it is shared).
CanModify(existing_data, user) ==
    ~(Get(existing_data, "author", None) # user /\ ~Get(existing_data, "shared", FALSE))

\* The permission check: it only applies to a recipe_id found in the store.
PermissionDenied(store, recipe_id, user) ==
    /\ recipe_id # None
    /\ Has(store, recipe_id)
    /\ ~CanModify(Lookup(store, recipe_id), user)

\* (mutant) the author is always the current user
SavedAuthor_ActingUser(store, recipe_id, user) == user

\* If update, keep original author; if new, author is current user.
SavedAuthor(store, recipe_id, user) ==
    IF ~Has(store, recipe_id) THEN user ELSE Lookup(store, recipe_id).author

\* If new recipe, generate new UUID: only when no recipe_id was selected.
SaveIds(recipe_id, used) == IF recipe_id = None THEN FreshIds(used) ELSE {recipe_id}

\* (mutant) the file misses the newest entry
Dump_OmitLast(store) == IF store = <<>> THEN store ELSE SubSeq(store, 1, Len(store) - 1)

\* json.dump(self.saved_recipes, f): the whole dict, in order.
Dump(store) == store

\* log_action: one row with the current operator ("Unknown" when none is selected).
log_action(rows, user, verb, name) ==
    Append(rows, LogRow(IF user # <<>> THEN user ELSE Unknown, verb, name))

\* (mutant) the name is not checked
Validate_NoNameCheck(user, name) == IF user = <<>> THEN "no_user" ELSE "ok"

\* The two input checks: an operator must be selected, the name must not be empty.
Validate(user, name) ==
    IF user = <<>> THEN "no_user"
    ELSE IF name = <<>> THEN "no_name"
    ELSE "ok"

\* existing_data.get('author') of the recipe the handler found, None without one.
FoundAuthor(store, recipe_id) ==
    IF recipe_id # None /\ Has(store, recipe_id)
    THEN Get(Lookup(store, recipe_id), "author", None)
    ELSE None

save_recipe(cur, name, speed, duration, acceleration, shared) ==
    /\ phase = "open"
    /\ LET user == current_user
           selected == SelectedId(cur)
           author == FoundAuthor(saved_recipes, selected)
           form == Form(name, speed, duration, acceleration, shared)
       IN  IF Validate(user, name) # "ok" THEN
               /\ result' = Result("save", None, None, form, Validate(user, name))
               /\ UNCHANGED <<recipes_json, history_csv, saved_recipes, recipe_list, issued>>
           ELSE IF PermissionDenied(saved_recipes, selected, user) THEN
               /\ result' = Result("save", selected, author, form, "permission_denied")
               /\ UNCHANGED <<recipes_json, history_csv, saved_recipes, recipe_list, issued>>
           ELSE
               /\ Len(history_csv) < MaxLog
               /\ \E recipe_id \in SaveIds(selected, issued) :
                     /\ saved_recipes' =
                            Put(saved_recipes, recipe_id,
                                Recipe(name, speed, duration, acceleration,
                                       SavedAuthor(saved_recipes, recipe_id, user),
                                       shared))
                     /\ issued' = IF selected = None THEN issued \cup {recipe_id} ELSE issued
                     /\ result' = Result("save", recipe_id, author, form,
                                         IF Has(saved_recipes, recipe_id)
                                         THEN "updated" ELSE "created")
               /\ recipes_json' = Dump(saved_recipes')
               /\ history_csv' = log_action(history_csv, user, "Saved", name)
               /\ recipe_list' = refresh_recipe_list(saved_recipes', user)
    /\ UNCHANGED <<phase, users_json, users, current_user>>
    /\ UNCHANGED evars

----------------------------------------------------------------------------
(* delete_recipe *)

\* (mutant) no permission rule
CanDelete_Always(data, current) == TRUE

\* Rule: can only delete own recipes or shared ones.
CanDelete(data, current) ==
    ~(Get(data, "author", None) # current /\ ~Get(data, "shared", FALSE))

\* (mutant) an identifier that is not in the store is answered like a refused delete
DeleteOutcome_DeniedWhenMissing(store, cur, current) ==
    IF cur = <<>> THEN "no_item"
    ELSE IF cur[1].data = None THEN "no_id"
    ELSE IF ~Has(store, cur[1].data) THEN "permission_denied"
    ELSE IF Get(Lookup(store, cur[1].data), "author", None) # current
            /\ ~Get(Lookup(store, cur[1].data), "shared", FALSE) THEN "permission_denied"
    ELSE "deleted"

\* The return point of delete_recipe: no current item, an item without data, an
\* identifier that is not in the store, a refused delete, or the delete itself.
DeleteOutcome(store, cur, current) ==
    IF cur = <<>> THEN "no_item"
    ELSE IF cur[1].data = None THEN "no_id"
    ELSE IF ~Has(store, cur[1].data) THEN "not_found"
    ELSE IF ~CanDelete(Lookup(store, cur[1].data), current) THEN "permission_denied"
    ELSE "deleted"

delete_recipe(cur) ==
    /\ phase = "open"
    /\ LET recipe_id == IF cur = <<>> THEN None ELSE cur[1].data
           author == FoundAuthor(saved_recipes, recipe_id)
           outcome == DeleteOutcome(saved_recipes, cur, current_user)
       IN  IF outcome # "deleted" THEN
               /\ result' = Result("delete", recipe_id, author, NoForm, outcome)
               /\ UNCHANGED <<recipes_json, history_csv, saved_recipes, recipe_list>>
           ELSE
               /\ Len(history_csv) < MaxLog
               /\ saved_recipes' = Del(saved_recipes, recipe_id)
               /\ recipes_json' = Dump(saved_recipes')
               /\ history_csv' = log_action(history_csv, current_user, "Deleted",
                                            Lookup(saved_recipes, recipe_id).name)
               /\ recipe_list' = refresh_recipe_list(saved_recipes', current_user)
               /\ result' = Result("delete", recipe_id, author, NoForm, outcome)
    /\ UNCHANGED <<phase, users_json, users, current_user, issued>>
    /\ UNCHANGED evars

----------------------------------------------------------------------------
(* Specification *)

\* The recipes.json found at first start: none, old-format records (keyed by
\* their name), and old-format records mixed with a new-format one.
LegacyA == Entry(NameA, LegacyRecipe(1000, 1, 100, Tom, FALSE))
LegacyDash == Entry(NameDash, LegacyRecipe(2000, 2, 200, Amy, TRUE))
NativeA == Entry(IdOf(1), Recipe(NameA, 2000, 2, 200, Amy, FALSE))

InitFiles ==
    {<<>>, <<LegacyA, LegacyDash>>, <<NativeA, LegacyA>>, <<LegacyDash, NativeA>>}

Init ==
    /\ phase = "closed"
    /\ recipes_json \in InitFiles
    /\ users_json = <<Tom, Amy>>
    /\ history_csv = <<>>
    /\ saved_recipes = <<>>
    /\ users = <<>>
    /\ current_user = <<>>
    /\ recipe_list = <<>>
    /\ issued = Keys(recipes_json) \cap Ids
    /\ result = NoResult
    /\ queue_list = <<>>
    /\ threads = <<>>
    /\ start_btn = TRUE
    /\ stop_btn = FALSE
    /\ SERIAL_AVAILABLE = TRUE

\* The recipe store under a fixed set of operators, within one session.
Next ==
    \/ load_data
    \/ \E u \in UserNames : select_user(u)
    \/ \E cur \in CurrentItems(issued), name \in FormNames, s \in Settings,
          shared \in BOOLEAN :
          save_recipe(cur, name, s[1], s[2], s[3], shared)
    \/ \E cur \in CurrentItems(issued) : delete_recipe(cur)

Spec == Init /\ [][Next]_vars

----------------------------------------------------------------------------
(* Properties of the recipe store *)

\* The identifiers the recipe list shows.
ListedIds == {recipe_list[i].data : i \in DOMAIN recipe_list} \ {None}

\* The stored record a handler call was about, read in the state before the call.
Target(id) == Lookup(saved_recipes, id)
Targets(id) == id # None /\ Has(saved_recipes, id)

\* C1: for the selected operator U, a stored recipe is in the recipe list iff it
\* is shared or its author is U, after any sequence of load, save and delete.
C1_ListedIffSharedOrOwn ==
    (phase = "open" /\ current_user # <<>>) =>
        \A i \in DOMAIN saved_recipes :
            (saved_recipes[i].k \in ListedIds)
                <=> (saved_recipes[i].v.shared \/ saved_recipes[i].v.author = current_user)

\* A save or delete has just run, and the store holds a recipe the operator sees
\* and one the operator does not see.
C1_Witness ==
    /\ result.outcome \in {"created", "updated", "deleted"}
    /\ current_user # <<>>
    /\ \E i \in DOMAIN saved_recipes : saved_recipes[i].k \in ListedIds
    /\ \E i \in DOMAIN saved_recipes : saved_recipes[i].k \notin ListedIds

\* C2: no step changes the author of a recipe that stays in the store, whoever
\* saves it.
C2_AuthorNeverChanges ==
    [][\A i \in DOMAIN saved_recipes :
          Has(saved_recipes', saved_recipes[i].k) =>
              Lookup(saved_recipes', saved_recipes[i].k).author = saved_recipes[i].v.author]_vars

\* An operator other than the author has just updated a recipe, and the recipe
\* still has its author.
C2_Witness ==
    /\ result.op = "save"
    /\ result.outcome = "updated"
    /\ result.author # current_user
    /\ Lookup(saved_recipes, result.id).author = result.author

C4_ForeignPrivateSaveRejected ==
    [][(/\ result'.op = "save"
        /\ Targets(result'.id)
        /\ Target(result'.id).author # current_user
        /\ ~Target(result'.id).shared)
       => (/\ result'.outcome = "permission_denied"
           /\ UNCHANGED <<saved_recipes, recipes_json, history_csv>>)]_vars

\* A save that asked for shared = true was refused on another author's private
\* recipe, which is still stored unshared.
C4_Witness ==
    /\ result.op = "save"
    /\ result.outcome = "permission_denied"
    /\ result.form.shared
    /\ Has(saved_recipes, result.id)
    /\ Lookup(saved_recipes, result.id).author # current_user
    /\ ~Lookup(saved_recipes, result.id).shared

\* C5: a delete of a stored recipe of another author that is not shared returns
\* at the permission check, and the store is unchanged.
C5_ForeignPrivateDeleteRejected ==
    [][(/\ result'.op = "delete"
        /\ Targets(result'.id)
        /\ Target(result'.id).author # current_user
        /\ ~Target(result'.id).shared)
       => (/\ result'.outcome = "permission_denied"
           /\ UNCHANGED <<saved_recipes, recipes_json, history_csv>>)]_vars

\* A delete was refused on another author's private recipe, which is still stored.
C5_Witness ==
    /\ result.op = "delete"
    /\ result.outcome = "permission_denied"
    /\ Has(saved_recipes, result.id)
    /\ Lookup(saved_recipes, result.id).author # current_user
    /\ ~Lookup(saved_recipes, result.id).shared

C7_InvalidSaveRejected ==
    [][(/\ result'.op = "save"
        /\ (current_user = <<>> \/ result'.form.name = <<>>))
       => (/\ result'.outcome \in {"no_user", "no_name"}
           /\ UNCHANGED <<saved_recipes, recipes_json, history_csv>>)]_vars

\* A save with an empty name was turned down for a selected operator.
C7_Witness ==
    /\ result.op = "save"
    /\ result.outcome = "no_name"
    /\ result.form.name = <<>>
    /\ current_user # <<>>
    /\ saved_recipes # <<>>

\* C8: a delete whose identifier is not in the store returns as not found, which
\* is neither the delete nor the permission refusal, and the store is unchanged.
C8_UnknownDeleteNotFound ==
    [][(/\ result'.op = "delete"
        /\ result'.id # None
        /\ ~Has(saved_recipes, result'.id))
       => (/\ result'.outcome = "not_found"
           /\ UNCHANGED <<saved_recipes, recipes_json, history_csv>>)]_vars

\* A delete was answered not found for an identifier the store no longer holds.
C8_Witness ==
    /\ result.op = "delete"
    /\ result.outcome = "not_found"
    /\ result.id \in issued
    /\ ~Has(saved_recipes, result.id)

\* The row a successful save or delete writes to the log.
OwnRow ==
    LogRow(IF current_user # <<>> THEN current_user ELSE Unknown,
           IF result'.op = "save" THEN "Saved" ELSE "Deleted",
           IF result'.op = "save" THEN result'.form.name ELSE Target(result'.id).name)

\* C9: a successful save or delete leaves the file equal to the store and appends
\* exactly its own row to the log; a save or delete that is turned down writes
\* neither.
C9_PersistAndLogOnSuccess ==
    [][(result'.op \in {"save", "delete"})
       => IF result'.outcome \in {"created", "updated", "deleted"}
          THEN /\ recipes_json' = saved_recipes'
               /\ history_csv' = Append(history_csv, OwnRow)
          ELSE UNCHANGED <<recipes_json, history_csv>>]_vars

\* A save has just been written to a file that held several records.
C9_Witness ==
    /\ result.outcome \in {"created", "updated"}
    /\ Len(saved_recipes) >= 2
    /\ recipes_json = saved_recipes
    /\ Len(history_csv) >= 1

\* C10: load keeps the number of records: a record without a name is stored
\* under a new identifier, with its old key as name and its other fields as they
\* were; a record with a name is stored under its key, as it was.
C10_LoadMigratesLegacy ==
    [][(phase = "closed" /\ phase' = "open")
       => (/\ Len(saved_recipes') = Len(recipes_json)
           /\ Cardinality(Keys(saved_recipes')) = Len(recipes_json)
           /\ \A i \in DOMAIN recipes_json :
                 IF "name" \in DOMAIN recipes_json[i].v
                 THEN saved_recipes'[i] = recipes_json[i]
                 ELSE /\ saved_recipes'[i].k \in Ids
                      /\ saved_recipes'[i].k \notin issued \cup Keys(recipes_json)
                      /\ DOMAIN saved_recipes'[i].v = DOMAIN recipes_json[i].v \cup {"name"}
                      /\ saved_recipes'[i].v.name = recipes_json[i].k
                      /\ \A f \in DOMAIN recipes_json[i].v :
                            saved_recipes'[i].v[f] = recipes_json[i].v[f])]_vars

\* Two old-format records have just been loaded.
C10_Witness ==
    /\ phase = "open"
    /\ history_csv = <<>>
    /\ Len(recipes_json) = 2
    /\ \A i \in DOMAIN recipes_json : "name" \notin DOMAIN recipes_json[i].v
    /\ Len(saved_recipes) = 2
    /\ \A i \in DOMAIN recipes_json : saved_recipes[i].v.name = recipes_json[i].k

----------------------------------------------------------------------------
(* MotorWorker *)

\* What a worker thread puts out, in the order it does: the strings it emits on
\* progress_update (by their parts), the lines it writes to the serial port,
\* the opening and closing of the port, and its finished signal.
InitNote == [ev |-> "note", kind |-> "init"]
ConnectedNote == [ev |-> "note", kind |-> "connected"]
ErrorNote(what) == [ev |-> "note", kind |-> "error", what |-> what]
WaitNote(loop, total, name, t) ==
    [ev |-> "note", kind |-> "wait", loop |-> loop, total |-> total, name |-> name, t |-> t]
RampNote(loop, total, name, speed) ==
    [ev |-> "note", kind |-> "ramp", loop |-> loop, total |-> total, name |-> name,
     speed |-> speed]
SpinNote(loop, total, name, speed, t) ==
    [ev |-> "note", kind |-> "spin", loop |-> loop, total |-> total, name |-> name,
     speed |-> speed, t |-> t]
CompleteNote == [ev |-> "note", kind |-> "complete"]
Command(speed) == [ev |-> "cmd", speed |-> speed]
OpenEv == [ev |-> "open"]
CloseEv == [ev |-> "close"]
FinishedEv == [ev |-> "finished"]

\* MotorWorker.__init__, with the position of run (pc), the loop variables of
\* run, the output so far and the delivery of the finished signal to the
\* window ("none": not emitted, "pending": emitted, "handled": on_finished ran).
\* stop_mark is not a field of the object: it remembers how much the thread
\* had put out when stop() cleared is_running.
MotorWorker(recipe_steps, loop_count, simulation_mode) ==
    [recipe_steps |-> recipe_steps, loop_count |-> loop_count,
     simulation_mode |-> simulation_mode, is_running |-> TRUE, ser |-> "none",
     pc |-> "init", current_loop |-> 0, idx |-> 0, t |-> 0,
     out |-> <<>>, signal |-> "none", stop_mark |-> 0]

Emit(w, e) == [w EXCEPT !.out = Append(@, e)]
Goto(w, pc) == [w EXCEPT !.pc = pc]

\* `if not self.simulation_mode and self.ser`
Live(w) == ~w.simulation_mode /\ w.ser # "none"

\* self.ser.write(...): the line is written, or the port raises and run ends
\* with the exception (nothing in run catches it).
Write(w, speed) == {Emit(w, Command(speed)), Goto(w, "raised")}

\* (mutant) the steps send nothing to the motor
GuardedWrite_Never(w, speed) == {w}

\* the write guarded by `if not self.simulation_mode and self.ser`
GuardedWrite(w, speed) == IF Live(w) THEN Write(w, speed) ELSE {w}

\* self.finished.emit(); return
Finish(w) == [Emit(w, FinishedEv) EXCEPT !.pc = "returned", !.signal = "pending"]

\* step.get('type', 'spin'), step.get('name', 'Step')
StepType(step) == Get(step, "type", "spin")
StepName(step) == Get(step, "name", <<"S", "t", "e", "p">>)

\* (mutant) a spin step is read from the library when it is executed
CurrentStep_FromLibrary(w) ==
    LET st == w.recipe_steps[w.idx]
        hits == {i \in DOMAIN saved_recipes : saved_recipes[i].v.name = StepName(st)}
    IN  IF StepType(st) = "wait" \/ hits = {} THEN st
        ELSE [f \in DOMAIN st |->
                 IF f \in {"speed", "duration"}
                 THEN saved_recipes[CHOOSE i \in hits : TRUE].v[f] ELSE st[f]]

\* the step of `for step in self.recipe_steps`
CurrentStep(w) == w.recipe_steps[w.idx]

\* (mutant) the countdown stops one second early
RangeDone_OneEarly(t) == t <= 1

\* range(duration, 0, -1) is exhausted
RangeDone(t) == t <= 0

\* (mutant) the flag is not looked at
Cancelled_Never(w) == FALSE

\* `if not self.is_running: break`
Cancelled(w) == ~w.is_running

\* self.progress_update.emit("Initializing...") and the mode test
Initialize(w) ==
    IF w.simulation_mode
    THEN [Emit(w, InitNote) EXCEPT !.pc = "loop", !.current_loop = 1]
    ELSE Goto(Emit(w, InitNote), "connect")

\* (mutant) a missing pyserial is not tested
Connect_NoAvailabilityTest(w, available) ==
    {[Emit(Emit([w EXCEPT !.ser = "open"], OpenEv), ConnectedNote)
         EXCEPT !.pc = "loop", !.current_loop = 1],
     Finish(Emit(w, ErrorNote("connection")))}

\* 1. Connect Hardware: pyserial missing, or serial.Serial(...) succeeds or raises
Connect(w, available) ==
    IF ~available
    THEN {Finish(Emit(w, ErrorNote("pyserial")))}
    ELSE {[Emit(Emit([w EXCEPT !.ser = "open"], OpenEv), ConnectedNote)
              EXCEPT !.pc = "loop", !.current_loop = 1],
          Finish(Emit(w, ErrorNote("connection")))}

\* `for current_loop in range(1, total_loops + 1): if not self.is_running: break`
LoopHead(w) ==
    IF w.current_loop > w.loop_count \/ Cancelled(w)
    THEN Goto(w, "finish")
    ELSE [w EXCEPT !.pc = "step", !.idx = 1]

\* `for step in self.recipe_steps: if not self.is_running: break`, and the
\* branch on the step's type
StepHead(w) ==
    IF w.idx > Len(w.recipe_steps) \/ Cancelled(w)
    THEN [w EXCEPT !.pc = "loop", !.current_loop = @ + 1]
    ELSE IF StepType(CurrentStep(w)) = "wait"
         THEN Goto(w, "wait_write")
         ELSE Goto(w, "spin_write")

\* wait step: stop the motor, then start the countdown
WaitWrite(w) ==
    {IF x.pc = "raised" THEN x
     ELSE [x EXCEPT !.pc = "wait_tick", !.t = CurrentStep(w).duration] :
        x \in GuardedWrite(w, 0)}

\* (mutant) the countdown does not look at the flag
Tick_NoFlagTest(w, emit) ==
    IF RangeDone(w.t)
    THEN [w EXCEPT !.pc = "step", !.idx = @ + 1]
    ELSE Goto(w, emit)

\* `for t in range(duration, 0, -1): if not self.is_running: break` of either
\* kind of step; emit names the position that emits the notification
Tick(w, emit) ==
    IF RangeDone(w.t) \/ Cancelled(w)
    THEN [w EXCEPT !.pc = "step", !.idx = @ + 1]
    ELSE Goto(w, emit)

\* emit "WAITING {t}s..."; self.sleep(1)
WaitEmit(w) ==
    [Emit(w, WaitNote(w.current_loop, w.loop_count, StepName(CurrentStep(w)), w.t))
        EXCEPT !.pc = "wait_tick", !.t = @ - 1]

\* spin step: send the speed
SpinWrite(w) ==
    {IF x.pc = "raised" THEN x ELSE Goto(x, "ramp") :
        x \in GuardedWrite(w, CurrentStep(w).speed)}

\* emit "Ramping to {speed} RPM..."; self.sleep(1); start the countdown
Ramp(w) ==
    [Emit(w, RampNote(w.current_loop, w.loop_count, StepName(CurrentStep(w)),
                      CurrentStep(w).speed))
        EXCEPT !.pc = "spin_tick", !.t = CurrentStep(w).duration]

\* emit "Spinning {speed} RPM ({t}s left)"; self.sleep(1)
SpinEmit(w) ==
    [Emit(w, SpinNote(w.current_loop, w.loop_count, StepName(CurrentStep(w)),
                      CurrentStep(w).speed, w.t))
        EXCEPT !.pc = "spin_tick", !.t = @ - 1]

\* (mutant) the port is closed without the SPEED:0 line
Shutdown_NoStop(w) ==
    IF Live(w)
    THEN {Goto(Emit([w EXCEPT !.ser = "closed"], CloseEv), "complete")}
    ELSE {Goto(w, "complete")}

\* 3. Finish and Stop: SPEED:0 and close, when a port is open
Shutdown(w) ==
    IF Live(w)
    THEN {IF x.pc = "raised" THEN x
          ELSE Goto(Emit([x EXCEPT !.ser = "closed"], CloseEv), "complete") :
             x \in Write(w, 0)}
    ELSE {Goto(w, "complete")}

\* (mutant) run returns without its finished signal
Complete_NoSignal(w) == Goto(Emit(w, CompleteNote), "returned")

\* emit "Process Complete."; self.finished.emit()
Complete(w) == Finish(Emit(w, CompleteNote))

\* The statement groups of MotorWorker.run, by position.
RunStep(w, available) ==
    CASE w.pc = "init" -> {Initialize(w)}
      [] w.pc = "connect" -> Connect(w, available)
      [] w.pc = "loop" -> {LoopHead(w)}
      [] w.pc = "step" -> {StepHead(w)}
      [] w.pc = "wait_write" -> WaitWrite(w)
      [] w.pc = "wait_tick" -> {Tick(w, "wait_emit")}
      [] w.pc = "wait_emit" -> {WaitEmit(w)}
      [] w.pc = "spin_write" -> SpinWrite(w)
      [] w.pc = "ramp" -> {Ramp(w)}
      [] w.pc = "spin_tick" -> {Tick(w, "spin_emit")}
      [] w.pc = "spin_emit" -> {SpinEmit(w)}
      [] w.pc = "finish" -> Shutdown(w)
      [] w.pc = "complete" -> {Complete(w)}
      [] OTHER -> {}

\* One statement group of thread i's run.
run(i) ==
    /\ i \in DOMAIN threads
    /\ \E w \in RunStep(threads[i], SERIAL_AVAILABLE) :
          threads' = [threads EXCEPT ![i] = w]
    /\ UNCHANGED <<queue_list, start_btn, stop_btn, SERIAL_AVAILABLE>>
    /\ UNCHANGED rvars

\* MotorWorker.stop, as stop_process calls it on self.worker
stop(w) ==
    IF w.is_running THEN [w EXCEPT !.is_running = FALSE, !.stop_mark = Len(w.out)]
    ELSE w

----------------------------------------------------------------------------
(* Execution queue *)

MaxQueue == 2       \* items the execution queue can hold

\* self.wait_input.value()
WaitDurations == {1, 2}

WaitName == <<"W", "a", "i", "t">>

\* f"--- WAIT {dur}s ---"
WaitText(dur) ==
    <<"-", "-", "-", " ", "W", "A", "I", "T", " ", ToString(dur), "s", " ", "-", "-", "-">>

\* {'type': 'wait', 'name': 'Wait', 'duration': dur}
WaitData(dur) == [type |-> "wait", name |-> WaitName, duration |-> dur]

\* An item of queue_list: its text and its UserRole data.  origin is not part of
\* the item: it remembers, for a dragged recipe, the identifier and the record
\* the recipe had when it was dropped.
QueueItem(text, data, origin) == [text |-> text, data |-> data, origin |-> origin]

\* (mutant) the running thread reads the steps from the queue's own list
add_wait_step_SharedList(dur) ==
    /\ phase = "open"
    /\ Len(queue_list) < MaxQueue
    /\ queue_list' = Append(queue_list, QueueItem(WaitText(dur), WaitData(dur), None))
    /\ threads' = [i \in DOMAIN threads |->
                      [threads[i] EXCEPT !.recipe_steps = Append(@, WaitData(dur))]]
    /\ UNCHANGED <<start_btn, stop_btn, SERIAL_AVAILABLE>>
    /\ UNCHANGED rvars

\* add_wait_step
add_wait_step(dur) ==
    /\ phase = "open"
    /\ Len(queue_list) < MaxQueue
    /\ queue_list' = Append(queue_list, QueueItem(WaitText(dur), WaitData(dur), None))
    /\ UNCHANGED <<threads, start_btn, stop_btn, SERIAL_AVAILABLE>>
    /\ UNCHANGED rvars

\* self.queue_list.takeItem(row)
TakeItem(list, row) == SubSeq(list, 1, row) \o SubSeq(list, row + 2, Len(list))

\* remove_queue_step; row is self.queue_list.currentRow(), -1 when no row is current
remove_queue_step(row) ==
    /\ phase = "open"
    /\ row \in -1..(Len(queue_list) - 1)
    /\ queue_list' = IF row >= 0 THEN TakeItem(queue_list, row) ELSE queue_list
    /\ UNCHANGED <<threads, start_btn, stop_btn, SERIAL_AVAILABLE>>
    /\ UNCHANGED rvars

\* Clear All: clr_btn.clicked -> self.queue_list.clear
clear_queue ==
    /\ phase = "open"
    /\ queue_list' = <<>>
    /\ UNCHANGED <<threads, start_btn, stop_btn, SERIAL_AVAILABLE>>
    /\ UNCHANGED rvars

\* A recipe dragged from recipe_list (headers and spacers cannot be dragged) and
\* dropped on queue_list: a copy of the item's text.  Whether the copy keeps the
\* identifier as its UserRole data makes no difference to start_process, which
\* looks for a dict with a 'type'; the copy is modelled without it.
drop_recipe(i) ==
    /\ phase = "open"
    /\ i \in DOMAIN recipe_list
    /\ recipe_list[i].enabled
    /\ Len(queue_list) < MaxQueue
    /\ queue_list' =
           Append(queue_list,
                  QueueItem(recipe_list[i].text, None,
                            [id |-> recipe_list[i].data,
                             rec |-> Lookup(saved_recipes, recipe_list[i].data)]))
    /\ UNCHANGED <<threads, start_btn, stop_btn, SERIAL_AVAILABLE>>
    /\ UNCHANGED rvars

----------------------------------------------------------------------------
(* start_process, stop_process, on_finished *)

\* self.loop_spin.value()
LoopCounts == {1, 2}

\* item_text.split(" (")[0]
CleanName(text) ==
    LET hits == {i \in 1..(Len(text) - 1) : text[i] = " " /\ text[i + 1] = "("}
    IN  IF hits = {} THEN text
        ELSE SubSeq(text, 1, (CHOOSE i \in hits : \A j \in hits : i <= j) - 1)

\* `data and 'type' in data and data['type'] == 'wait'`
IsWaitData(data) == data # None /\ "type" \in DOMAIN data /\ data.type = "wait"

\* The first record of the library, in dict order, whose name is clean_name
\* (None when there is none).
FindByName(store, clean_name) ==
    LET hits == {i \in DOMAIN store : store[i].v.name = clean_name}
    IN  IF hits = {} THEN None
        ELSE store[CHOOSE i \in hits : \A j \in hits : i <= j].v

\* d = found_data.copy(); d['type'] = 'spin'
SpinStep(found_data) ==
    [f \in DOMAIN found_data \cup {"type"} |->
        IF f = "type" THEN "spin" ELSE found_data[f]]

\* Iterate Queue: the steps and the names start_process builds from the queue.
RECURSIVE ResolveQueue(_, _)
ResolveQueue(queue, store) ==
    IF queue = <<>> THEN [steps |-> <<>>, names |-> <<>>]
    ELSE LET item == Head(queue)
             rest == ResolveQueue(Tail(queue), store)
             clean_name == CleanName(item.text)
             found_data == FindByName(store, clean_name)
         IN  IF IsWaitData(item.data)
             THEN [steps |-> <<item.data>> \o rest.steps,
                   names |-> <<WaitName>> \o rest.names]
             ELSE IF found_data # None
             THEN [steps |-> <<SpinStep(found_data)>> \o rest.steps,
                   names |-> <<clean_name>> \o rest.names]
             ELSE rest

\* ', '.join(names)
RECURSIVE Join(_)
Join(names) ==
    IF names = <<>> THEN <<>>
    ELSE IF Len(names) = 1 THEN names[1]
    ELSE names[1] \o <<",", " ">> \o Join(Tail(names))

\* "[SIM]" if sim_mode else "[LIVE]"
StartedVerb(sim_mode) == IF sim_mode THEN "Started [SIM]" ELSE "Started [LIVE]"

\* The worker threads left when self.worker is bound to a new MotorWorker: a
\* thread that has ended and whose finished signal is not waiting goes with its
\* object.
Ended(w) == w.pc \in {"returned", "raised"}
Kept(ts) == SelectSeq(ts, LAMBDA w : ~Ended(w) \/ w.signal = "pending")

\* (mutant) the start button stays enabled
StartButtonAfterStart_Enabled == TRUE

\* self.start_btn.setEnabled(False)
StartButtonAfterStart == FALSE

\* (mutant) no test for an empty step list
StartOutcome_NoEmptyTest(user, steps) ==
    IF user = <<>> THEN "no_user" ELSE "started"

\* The return point of start_process.
StartOutcome(user, steps) ==
    IF user = <<>> THEN "no_user"
    ELSE IF steps = <<>> THEN "no_steps"
    ELSE "started"

\* start_process; loop is self.loop_spin.value(), sim_mode self.sim_btn.isChecked().
\* The handler runs on a click of start_btn, which needs the button enabled.
start_process(loop, sim_mode) ==
    /\ phase = "open"
    /\ start_btn
    /\ LET user == current_user
           built == ResolveQueue(queue_list, saved_recipes)
           outcome == StartOutcome(user, built.steps)
       IN  /\ result' = Result("start", None, None, NoForm, outcome)
           /\ IF outcome = "started"
              THEN /\ Len(history_csv) < MaxLog
                   /\ history_csv' =
                          log_action(history_csv, user, StartedVerb(sim_mode),
                                     Join(built.names))
                   /\ threads' = Append(Kept(threads),
                                        MotorWorker(built.steps, loop, sim_mode))
                   /\ start_btn' = StartButtonAfterStart
                   /\ stop_btn' = TRUE
              ELSE UNCHANGED <<history_csv, threads, start_btn, stop_btn>>
    /\ UNCHANGED <<phase, recipes_json, users_json, saved_recipes, users, current_user,
                   recipe_list, issued, queue_list, SERIAL_AVAILABLE>>

\* stop_process, on a click of stop_btn: self.worker.stop() and a log row
stop_process ==
    /\ phase = "open"
    /\ stop_btn
    /\ Len(history_csv) < MaxLog
    /\ threads' = IF threads # <<>>
                  THEN [threads EXCEPT ![Len(threads)] = stop(threads[Len(threads)])]
                  ELSE threads
    /\ history_csv' = log_action(history_csv, current_user, "Emergency Stop", <<>>)
    /\ result' = NoResult
    /\ UNCHANGED <<phase, recipes_json, users_json, saved_recipes, users, current_user,
                   recipe_list, issued, queue_list, start_btn, stop_btn, SERIAL_AVAILABLE>>

\* on_finished, run by the window for the finished signal of thread i
on_finished(i) ==
    /\ i \in DOMAIN threads
    /\ threads[i].signal = "pending"
    /\ threads' = [threads EXCEPT ![i].signal = "handled"]
    /\ start_btn' = TRUE
    /\ stop_btn' = FALSE
    /\ history_csv' = log_action(history_csv, current_user, "Process Finished", <<>>)
    /\ result' = NoResult
    /\ UNCHANGED <<phase, recipes_json, users_json, saved_recipes, users, current_user,
                   recipe_list, issued, queue_list, SERIAL_AVAILABLE>>

----------------------------------------------------------------------------
(* Specification of the execution side *)

\* The items of the recipe list the operator can select.
ListedItems == {<<>>} \cup {<<recipe_list[i]>> : i \in {j \in DOMAIN recipe_list : recipe_list[j].enabled}}

\* The window of one operator, with one recipe in the library.
InitExec ==
    /\ phase = "closed"
    /\ recipes_json = <<LegacyA>>
    /\ users_json = <<Tom>>
    /\ history_csv = <<>>
    /\ saved_recipes = <<>>
    /\ users = <<>>
    /\ current_user = <<>>
    /\ recipe_list = <<>>
    /\ issued = {}
    /\ result = NoResult
    /\ queue_list = <<>>
    /\ threads = <<>>
    /\ start_btn = TRUE
    /\ stop_btn = FALSE
    /\ SERIAL_AVAILABLE = TRUE

NextExec ==
    \/ load_data
    \/ \E u \in UserNames : select_user(u)
    \/ add_wait_step(1)
    \/ \E row \in -1..(MaxQueue - 1) : remove_queue_step(row)
    \/ clear_queue
    \/ \E i \in DOMAIN recipe_list : drop_recipe(i)
    \/ \E sim_mode \in BOOLEAN : start_process(1, sim_mode)
    \/ stop_process
    \/ \E i \in DOMAIN threads : on_finished(i)
    \/ \E i \in DOMAIN threads : run(i)

SpecExec == InitExec /\ [][NextExec]_vars

\* The same window up to the click on Start: the operator fills the queue, may
\* delete the recipe, and starts.
NextStart ==
    \/ load_data
    \/ \E u \in UserNames : select_user(u)
    \/ \E dur \in WaitDurations : add_wait_step(dur)
    \/ clear_queue
    \/ \E i \in DOMAIN recipe_list : drop_recipe(i)
    \/ \E cur \in ListedItems : delete_recipe(cur)
    \/ \E loop \in LoopCounts, sim_mode \in BOOLEAN : start_process(loop, sim_mode)

SpecStart == InitExec /\ [][NextStart]_vars

----------------------------------------------------------------------------
(* Specification of one worker thread *)

\* The library and the recipe list of operator Tom after load_data has read a
\* recipes.json with two old-format records.
WorkerStore == Migrate(<<LegacyA, LegacyDash>>, <<IdOf(1), IdOf(2)>>, 2)
WorkerList == refresh_recipe_list(WorkerStore, Tom)

\* The items the operator can put in the queue: the two waits and the recipes of
\* the list.
WorkerItems ==
    {QueueItem(WaitText(dur), WaitData(dur), None) : dur \in WaitDurations}
    \cup {QueueItem(WorkerList[i].text, None,
                    [id |-> WorkerList[i].data,
                     rec |-> Lookup(WorkerStore, WorkerList[i].data)]) :
             i \in {j \in DOMAIN WorkerList : WorkerList[j].enabled}}

WorkerQueues == UNION {[1..n -> WorkerItems] : n \in 1..MaxQueue}

\* The window right after start_process has started a worker on a queue, for
\* every queue, loop count and mode.
InitWorker ==
    \E queue \in WorkerQueues, loop \in LoopCounts, sim_mode \in BOOLEAN :
        LET built == ResolveQueue(queue, WorkerStore)
        IN  /\ phase = "open"
            /\ recipes_json = <<LegacyA, LegacyDash>>
            /\ users_json = <<Tom>>
            /\ history_csv = log_action(<<>>, Tom, StartedVerb(sim_mode), Join(built.names))
            /\ saved_recipes = WorkerStore
            /\ users = <<Tom>>
            /\ current_user = Tom
            /\ recipe_list = WorkerList
            /\ issued = {IdOf(1), IdOf(2)}
            /\ result = Result("start", None, None, NoForm, "started")
            /\ queue_list = queue
            /\ threads = <<MotorWorker(built.steps, loop, sim_mode)>>
            /\ start_btn = FALSE
            /\ stop_btn = TRUE
            /\ SERIAL_AVAILABLE \in BOOLEAN

\* The worker thread, the operator's stop button and the delivery of the
\* finished signal.
NextWorker ==
    \/ run(1)
    \/ stop_process
    \/ on_finished(1)

SpecWorker == InitWorker /\ [][NextWorker]_vars

\* The same with scheduling: a started thread keeps executing run (its sleeps
\* are finite), and Qt's event loop delivers an emitted finished signal.
SpecWorkerFair ==
    /\ InitWorker
    /\ [][NextWorker]_vars
    /\ WF_vars(run(1))
    /\ WF_vars(on_finished(1))

----------------------------------------------------------------------------
(* Specification of the library together with the queue *)

\* Two operators; recipes.json holds one private recipe.
InitQueue ==
    /\ phase = "closed"
    /\ recipes_json = <<NativeA>>
    /\ users_json = <<Tom, Amy>>
    /\ history_csv = <<>>
    /\ saved_recipes = <<>>
    /\ users = <<>>
    /\ current_user = <<>>
    /\ recipe_list = <<>>
    /\ issued = Keys(recipes_json) \cap Ids
    /\ result = NoResult
    /\ queue_list = <<>>
    /\ threads = <<>>
    /\ start_btn = TRUE
    /\ stop_btn = FALSE
    /\ SERIAL_AVAILABLE = TRUE

\* Saving and deleting recipes of the list, filling the queue, and starting.
NextQueue ==
    \/ load_data
    \/ \E u \in UserNames : select_user(u)
    \/ \E cur \in ListedItems, name \in FormNames, s \in Settings, shared \in BOOLEAN :
          save_recipe(cur, name, s[1], s[2], s[3], shared)
    \/ \E cur \in ListedItems : delete_recipe(cur)
    \/ add_wait_step(1)
    \/ clear_queue
    \/ \E i \in DOMAIN recipe_list : drop_recipe(i)
    \/ start_process(1, TRUE)

SpecQueue == InitQueue /\ [][NextQueue]_vars

----------------------------------------------------------------------------
(* Properties of the worker thread *)

\* The ramp, spin and wait notifications of an output, in order.
IsStepNote(e) == e.ev = "note" /\ e.kind \in {"ramp", "spin", "wait"}
StepNotes(out) == SelectSeq(out, IsStepNote)
Commands(out) == SelectSeq(out, LAMBDA e : e.ev = "cmd")
Has_ev(out, e) == \E j \in DOMAIN out : out[j] = e

\* What the thread has put out since stop() cleared the flag.
AfterStop(w) == SubSeq(w.out, w.stop_mark + 1, Len(w.out))

\* The notifications of one step counted down from t, of one pass over the
\* steps from position k on, and of the loops from loop on.
RECURSIVE Countdown(_, _, _, _)
Countdown(step, loop, total, t) ==
    IF t <= 0 THEN <<>>
    ELSE <<IF step.type = "wait"
           THEN WaitNote(loop, total, step.name, t)
           ELSE SpinNote(loop, total, step.name, step.speed, t)>>
         \o Countdown(step, loop, total, t - 1)

RECURSIVE PassNotes(_, _, _, _)
PassNotes(steps, k, loop, total) ==
    IF k > Len(steps) THEN <<>>
    ELSE (IF steps[k].type = "wait" THEN <<>>
          ELSE <<RampNote(loop, total, steps[k].name, steps[k].speed)>>)
         \o Countdown(steps[k], loop, total, steps[k].duration)
         \o PassNotes(steps, k + 1, loop, total)

RECURSIVE RunNotes(_, _, _)
RunNotes(steps, loop, total) ==
    IF loop > total THEN <<>>
    ELSE PassNotes(steps, 1, loop, total) \o RunNotes(steps, loop + 1, total)

\* C11: a simulated run that was not stopped has put out, when it returns, the
\* notifications of loops 1..N in order (per step: a ramp and then the spin
\* seconds d..1, or the wait seconds d..1), then the completion notification as
\* its last notification, and has neither opened the port nor written to it.
C11_SimulatedRunOrder ==
    \A i \in DOMAIN threads :
        LET w == threads[i]
            notes == SelectSeq(w.out, LAMBDA e : e.ev = "note")
        IN  (w.simulation_mode /\ w.is_running /\ w.pc = "returned")
            => /\ StepNotes(w.out) = RunNotes(w.recipe_steps, 1, w.loop_count)
               /\ notes = <<InitNote>> \o StepNotes(w.out) \o <<CompleteNote>>
               /\ \A j \in DOMAIN w.out : w.out[j].ev \notin {"cmd", "open", "close"}
               /\ w.ser = "none"

\* A simulated run of two loops over a spin step of two seconds and a wait has
\* returned without being stopped.
C11_Witness ==
    \E i \in DOMAIN threads :
        LET w == threads[i]
        IN  /\ w.simulation_mode /\ w.is_running /\ w.pc = "returned"
            /\ w.loop_count = 2
            /\ Len(w.recipe_steps) = 2
            /\ w.recipe_steps[1].type = "spin" /\ w.recipe_steps[1].duration = 2
            /\ w.recipe_steps[2].type = "wait"
            /\ Len(StepNotes(w.out)) = 8

\* C12 as stated: once stop() has cleared the flag, no step of the thread adds a
\* ramp, spin or wait notification.
C12_NoStepNoteAfterStop ==
    [][\A i \in DOMAIN threads :
          (~threads[i].is_running /\ i \in DOMAIN threads')
              => StepNotes(threads'[i].out) = StepNotes(threads[i].out)]_vars

\* C12, amended: once stop() has cleared the flag, the thread puts out at most
\* one more ramp, spin or wait notification (the one whose test of the flag had
\* passed before the stop).
C12_AtMostOneStepNoteAfterStop ==
    \A i \in DOMAIN threads :
        ~threads[i].is_running => Len(StepNotes(AfterStop(threads[i]))) <= 1

\* A thread stopped in the middle of its steps has returned, with one step
\* notification put out after the stop.
C12_Witness ==
    \E i \in DOMAIN threads :
        LET w == threads[i]
        IN  /\ ~w.is_running /\ w.pc = "returned"
            /\ StepNotes(SubSeq(w.out, 1, w.stop_mark)) # <<>>
            /\ Len(StepNotes(AfterStop(w))) = 1
            /\ Len(StepNotes(w.out)) < Len(RunNotes(w.recipe_steps, 1, w.loop_count))

\* C13: in a live run with the port open, the completion notification comes
\* right after the closing of the port, which comes right after a SPEED:0 line;
\* no line is written after the completion notification; and a run that has
\* returned, stopped or not, has put out the completion notification.
C13_LiveShutdownOrder ==
    \A i \in DOMAIN threads :
        LET w == threads[i]
        IN  (~w.simulation_mode /\ Has_ev(w.out, OpenEv))
            => /\ \A j \in DOMAIN w.out :
                     w.out[j] = CompleteNote
                         => /\ j >= 3
                            /\ w.out[j - 1] = CloseEv
                            /\ w.out[j - 2] = Command(0)
                            /\ \A k \in DOMAIN w.out : k > j => w.out[k].ev # "cmd"
               /\ w.pc = "returned"
                     => /\ Len(w.out) >= 4
                        /\ SubSeq(w.out, Len(w.out) - 3, Len(w.out))
                               = <<Command(0), CloseEv, CompleteNote, FinishedEv>>
                        /\ w.ser = "closed"

\* A live run was stopped after it had sent a speed to the motor, and has
\* returned.
C13_Witness ==
    \E i \in DOMAIN threads :
        LET w == threads[i]
        IN  /\ ~w.simulation_mode /\ w.pc = "returned" /\ ~w.is_running
            /\ Has_ev(w.out, OpenEv)
            /\ \E j \in 1..w.stop_mark : w.out[j].ev = "cmd" /\ w.out[j].speed > 0
            /\ Len(StepNotes(w.out)) < Len(RunNotes(w.recipe_steps, 1, w.loop_count))

\* C14: a live run past its connection step, with pyserial missing or with the
\* port not opened, has returned with nothing put out but the initial
\* notification, one error notification and the finished signal; it holds no
\* port, and once on_finished has run the start button is enabled and the stop
\* button disabled.
C14_NoConnectionNoStep ==
    \A i \in DOMAIN threads :
        LET w == threads[i]
        IN  (/\ ~w.simulation_mode
             /\ w.pc \notin {"init", "connect"}
             /\ (~SERIAL_AVAILABLE \/ ~Has_ev(w.out, OpenEv)))
            => /\ w.pc = "returned"
               /\ w.out = <<InitNote,
                            ErrorNote(IF SERIAL_AVAILABLE THEN "connection" ELSE "pyserial"),
                            FinishedEv>>
               /\ w.ser = "none"
               /\ w.signal \in {"pending", "handled"}
               /\ (w.signal = "handled" /\ i = Len(threads)) => (start_btn /\ ~stop_btn)

\* A live run without pyserial has ended and the window has handled its
\* finished signal.
C14_Witness ==
    \E i \in DOMAIN threads :
        LET w == threads[i]
        IN  /\ ~w.simulation_mode /\ ~SERIAL_AVAILABLE
            /\ w.pc = "returned" /\ w.signal = "handled"
            /\ Has_ev(w.out, ErrorNote("pyserial"))
            /\ start_btn

\* C15 as stated: a run whose write to the port raised has put out an error
\* notification and its finished signal.
C15_SendFailureReported ==
    \A i \in DOMAIN threads :
        LET w == threads[i]
        IN  w.pc = "raised"
            => /\ \E j \in DOMAIN w.out : w.out[j].ev = "note" /\ w.out[j].kind = "error"
               /\ w.signal \in {"pending", "handled"}

----------------------------------------------------------------------------
(* Properties of the window's execution handlers *)

\* A run is active from the start of its thread until on_finished has run for
\* its finished signal.
Active(w) == w.signal # "handled"
RunActive == \E i \in DOMAIN threads : Active(threads[i])

\* C16: at no time are there two worker threads whose finished signal has not
\* been handled, whatever the order of start, stop, queue changes and the
\* worker's steps; and a thread is started only when no run is active.
C16_AtMostOneActiveRun ==
    [][/\ Cardinality({i \in DOMAIN threads' : Active(threads'[i])}) <= 1
       /\ (result' # result /\ result'.op = "start" /\ result'.outcome = "started")
              => ~RunActive]_vars

\* A stopped run has returned, its finished signal is not handled yet, and the
\* start button is still disabled.
C16_Witness ==
    /\ Len(threads) = 1
    /\ threads[1].pc = "returned" /\ threads[1].signal = "pending"
    /\ ~threads[1].is_running
    /\ ~start_btn /\ stop_btn
    /\ queue_list # <<>>

\* C17: a click on Start when the queue resolves to no step (an empty queue, or
\* recipes that are no longer in the library) changes neither the threads nor
\* the log, the buttons, the queue or the library; no run is active after it and
\* the start button is enabled.
C17_EmptyStartIsNoOp ==
    [][(/\ result' # result
        /\ result'.op = "start"
        /\ ResolveQueue(queue_list, saved_recipes).steps = <<>>)
       => (/\ UNCHANGED <<threads, history_csv, start_btn, stop_btn, queue_list,
                          saved_recipes, recipes_json, recipe_list>>
           /\ ~RunActive'
           /\ start_btn')]_vars

\* Start was clicked with a selected operator and a queue that holds a recipe
\* deleted since it was dropped.
C17_Witness ==
    /\ result.op = "start"
    /\ result.outcome = "no_steps"
    /\ current_user # <<>>
    /\ queue_list # <<>>
    /\ threads = <<>>
    /\ start_btn

\* C18 as stated: while a run is active no step changes the queue.
C18_QueueFrozenWhileRunning ==
    [][RunActive => queue_list' = queue_list]_vars

\* C18, amended: a change of the queue while a run is active leaves the step
\* list of the active run as it was.
C18_ActiveRunKeepsItsSteps ==
    [][\A i \in DOMAIN threads :
          (Active(threads[i]) /\ queue_list' # queue_list)
              => /\ i \in DOMAIN threads'
                 /\ threads'[i].recipe_steps = threads[i].recipe_steps]_vars

\* The queue was emptied and a wait added while the thread is in the countdown
\* of a spin step it was started with.
C18_Witness ==
    /\ Len(threads) = 1
    /\ threads[1].pc = "spin_tick"
    /\ threads[1].is_running
    /\ Len(threads[1].recipe_steps) = 1
    /\ threads[1].recipe_steps[1].type = "spin"
    /\ Len(queue_list) = 1
    /\ queue_list[1].data = WaitData(1)

\* The speed and duration of the spin steps a thread was started with, and those
\* the recipes of the queue had when they were dropped on it.
ExecutedPlan(steps) ==
    LET spins == SelectSeq(steps, LAMBDA st : StepType(st) # "wait")
    IN  [j \in DOMAIN spins |-> <<spins[j].speed, spins[j].duration>>]
QueuedPlan(queue) ==
    LET drops == SelectSeq(queue, LAMBDA it : it.origin # None)
    IN  [j \in DOMAIN drops |-> <<drops[j].origin.rec.speed, drops[j].origin.rec.duration>>]

Range(seq) == {seq[j] : j \in DOMAIN seq}

\* A click on Start that started a thread.
Started == threads' # threads /\ result'.op = "start" /\ result'.outcome = "started"

\* C19 as stated: the spin steps a started thread executes have, in queue order,
\* the speed and duration the queued recipes had when they were queued, whatever
\* was saved or deleted in between.
C19_QueuedStepIsSnapshot ==
    [][Started
       => ExecutedPlan(threads'[Len(threads')].recipe_steps) = QueuedPlan(queue_list)]_vars

\* C20 as stated: every spin step of a started thread is a recipe that is shared
\* or whose author is the operator who started it.
C20_StartResolvesVisibleOnly ==
    [][Started
       => \A st \in Range(threads'[Len(threads')].recipe_steps) :
             StepType(st) # "wait"
                 => (Get(st, "shared", FALSE) \/ Get(st, "author", Unknown) = current_user)]_vars

----------------------------------------------------------------------------
(* Further properties of the worker thread *)

\* C21: once stop() has cleared the flag, the thread sleeps at most one more
\* second (every self.sleep(1) follows a step notification), and each test of
\* the flag it comes to leaves its loop at once and puts out nothing: the
\* countdown goes to the step loop, the step loop to the loop over the
\* repetitions, and that one to the shutdown.
C21_StopLeavesLoopsWithinOneTick ==
    [][\A i \in DOMAIN threads :
          (/\ ~threads[i].is_running
           /\ i \in DOMAIN threads'
           /\ threads'[i] # threads[i])
          => LET w == threads[i]
                 x == threads'[i]
             IN  /\ Len(StepNotes(AfterStop(x))) <= 1
                 /\ w.pc \in {"wait_tick", "spin_tick"}
                        => (x.pc = "step" /\ x.out = w.out)
                 /\ w.pc = "step" => (x.pc = "loop" /\ x.out = w.out)
                 /\ w.pc = "loop" => (x.pc = "finish" /\ x.out = w.out)
                 /\ w.pc \in {"wait_emit", "spin_emit", "ramp"}
                        => x.pc \in {"wait_tick", "spin_tick"}]_vars

\* A thread stopped in the first of two loops, with seconds of its step left and
\* a step still to come, has slept one more second and stands at the shutdown.
C21_Witness ==
    \E i \in DOMAIN threads :
        LET w == threads[i]
        IN  /\ ~w.is_running /\ w.pc = "finish"
            /\ w.loop_count = 2 /\ w.current_loop = 2
            /\ w.t >= 1
            /\ w.idx <= Len(w.recipe_steps)
            /\ Len(StepNotes(AfterStop(w))) = 1

\* The lines and notifications of one pass over the steps in live mode, and of
\* the loops from loop on: each step starts with its line to the motor.
RECURSIVE LivePass(_, _, _, _)
LivePass(steps, k, loop, total) ==
    IF k > Len(steps) THEN <<>>
    ELSE (IF steps[k].type = "wait"
          THEN <<Command(0)>>
          ELSE <<Command(steps[k].speed),
                 RampNote(loop, total, steps[k].name, steps[k].speed)>>)
         \o Countdown(steps[k], loop, total, steps[k].duration)
         \o LivePass(steps, k + 1, loop, total)

RECURSIVE LiveRun(_, _, _)
LiveRun(steps, loop, total) ==
    IF loop > total THEN <<>>
    ELSE LivePass(steps, 1, loop, total) \o LiveRun(steps, loop + 1, total)

\* C22: a live run with the port open that was not stopped has, when it returns,
\* written exactly one line per step of every loop, in order (the step's speed
\* before the ramp notification of a spin step, SPEED:0 before the first
\* notification of a wait step), and one last SPEED:0.
C22_LiveCommandSequence ==
    \A i \in DOMAIN threads :
        LET w == threads[i]
        IN  (/\ ~w.simulation_mode /\ Has_ev(w.out, OpenEv)
             /\ w.is_running /\ w.pc = "returned")
            => SelectSeq(w.out, LAMBDA e : e.ev = "cmd" \/ IsStepNote(e))
                   = LiveRun(w.recipe_steps, 1, w.loop_count) \o <<Command(0)>>

\* A live run of two loops over a spin step and a wait has returned without
\* being stopped.
C22_Witness ==
    \E i \in DOMAIN threads :
        LET w == threads[i]
        IN  /\ ~w.simulation_mode /\ Has_ev(w.out, OpenEv)
            /\ w.is_running /\ w.pc = "returned"
            /\ w.loop_count = 2
            /\ Len(w.recipe_steps) = 2
            /\ w.recipe_steps[1].type = "spin"
            /\ w.recipe_steps[2].type = "wait"
            /\ Len(Commands(w.out)) = 5

----------------------------------------------------------------------------
(* add_new_user, delete_user *)

\* self.users.remove(u)
Remove(list, u) == SelectSeq(list, LAMBDA v : v # u)

\* add_new_user; name and ok are what QInputDialog.getText returns.  The combo
\* box has a placeholder text, so an added entry does not become the current one.
add_new_user(name, ok) ==
    /\ phase = "open"
    /\ IF ok /\ name # <<>> /\ name \notin Range(users)
       THEN /\ users' = Append(users, name)
            /\ users_json' = users'
       ELSE UNCHANGED <<users, users_json>>
    /\ result' = NoResult
    /\ UNCHANGED <<phase, recipes_json, history_csv, saved_recipes, current_user,
                   recipe_list, issued>>
    /\ UNCHANGED evars

\* What user_combo shows after removeItem took its current entry: one of the
\* entries left, or nothing.
AfterRemoveItem(left) == Range(left) \cup {<<>>}

\* (mutant) the recipes of the deleted operator go with the operator
delete_user_WithRecipes(yes) ==
    /\ phase = "open"
    /\ current_user # <<>>
    /\ current_user \in Range(users)
    /\ yes
    /\ users' = Remove(users, current_user)
    /\ users_json' = users'
    /\ saved_recipes' = SelectSeq(saved_recipes, LAMBDA e : e.v.author # current_user)
    /\ recipes_json' = Dump(saved_recipes')
    /\ \E next \in AfterRemoveItem(users') :
          /\ current_user' = next
          /\ recipe_list' = refresh_recipe_list(saved_recipes', next)
    /\ result' = NoResult
    /\ UNCHANGED <<phase, history_csv, issued>>
    /\ UNCHANGED evars

\* delete_user; yes is the answer to the question box.  Removing the current
\* entry of user_combo changes its current text, which runs
\* refresh_recipe_list.
delete_user(yes) ==
    /\ phase = "open"
    /\ IF current_user # <<>> /\ current_user \in Range(users) /\ yes
       THEN /\ users' = Remove(users, current_user)
            /\ users_json' = users'
            /\ \E next \in AfterRemoveItem(users') :
                  /\ current_user' = next
                  /\ recipe_list' = refresh_recipe_list(saved_recipes, next)
       ELSE UNCHANGED <<users, users_json, current_user, recipe_list>>
    /\ result' = NoResult
    /\ UNCHANGED <<phase, recipes_json, history_csv, saved_recipes, issued>>
    /\ UNCHANGED evars

----------------------------------------------------------------------------
(* Specification of the operators with the library *)

\* Two operators; recipes.json holds a shared and a private recipe of Amy.
InitUsers ==
    /\ phase = "closed"
    /\ recipes_json = <<LegacyDash, NativeA>>
    /\ users_json = <<Amy, Tom>>
    /\ history_csv = <<>>
    /\ saved_recipes = <<>>
    /\ users = <<>>
    /\ current_user = <<>>
    /\ recipe_list = <<>>
    /\ issued = Keys(recipes_json) \cap Ids
    /\ result = NoResult
    /\ queue_list = <<>>
    /\ threads = <<>>
    /\ start_btn = TRUE
    /\ stop_btn = FALSE
    /\ SERIAL_AVAILABLE = TRUE

NextUsers ==
    \/ load_data
    \/ \E u \in UserNames : select_user(u)
    \/ \E name \in UserNames \cup {<<>>}, ok \in BOOLEAN : add_new_user(name, ok)
    \/ \E yes \in BOOLEAN : delete_user(yes)
    \/ \E cur \in ListedItems, name \in FormNames, s \in Settings, shared \in BOOLEAN :
          save_recipe(cur, name, s[1], s[2], s[3], shared)
    \/ \E cur \in ListedItems : delete_recipe(cur)

SpecUsers == InitUsers /\ [][NextUsers]_vars

\* The identifiers refresh_recipe_list shows to operator v.
ListedFor(store, v) ==
    {it.data : it \in Range(refresh_recipe_list(store, v))} \ {None}

\* C23: a step of the open window that takes an operator off the user list
\* takes off exactly the current operator, writes the list to users.json and
\* leaves the store, its file and the log as they were, so every recipe keeps
\* its author; the unshared recipes of that operator are then listed for no
\* operator left; and an operator (one put on the list again included) has each
\* own recipe in the list while selected and is never refused a save or delete
\* of an own recipe.
C23_DeleteUserKeepsRecipes ==
    [][/\ (phase = "open" /\ Len(users') < Len(users))
          => /\ users' = Remove(users, current_user)
             /\ users_json' = users'
             /\ UNCHANGED <<saved_recipes, recipes_json, history_csv, issued>>
             /\ \A v \in Range(users'), e \in Range(saved_recipes') :
                   (e.v.author = current_user /\ ~e.v.shared)
                       => e.k \notin ListedFor(saved_recipes', v)
       /\ (phase = "open" /\ Len(users') > Len(users))
          => UNCHANGED <<saved_recipes, recipes_json, history_csv, issued>>
       /\ \A e \in Range(saved_recipes') :
             (current_user' # <<>> /\ e.v.author = current_user')
                 => e.k \in {recipe_list'[j].data : j \in DOMAIN recipe_list'}
       /\ (/\ result' # result
           /\ result'.op \in {"save", "delete"}
           /\ result'.author # None
           /\ result'.author = current_user)
          => result'.outcome # "permission_denied"]_vars

\* Amy was deleted while she had an unshared recipe, was added again, and has
\* just updated that recipe.
C23_Witness ==
    /\ users = <<Tom, Amy>>
    /\ current_user = Amy
    /\ result.op = "save" /\ result.outcome = "updated"
    /\ result.author = Amy
    /\ \E e \in Range(saved_recipes) :
          e.k = result.id /\ e.v.author = Amy /\ ~e.v.shared

----------------------------------------------------------------------------
(* Termination of a run *)

\* The finished signal is in the output at most once, as its last entry.
FinishedOnceAndLast(out) ==
    \A j \in DOMAIN out : out[j] = FinishedEv => j = Len(out)

\* C24: in every run of a started thread, for each queue, loop count and mode
\* and wherever Stop is clicked, the finished signal is never put out twice
\* nor followed by anything, and either a write to the port raises, or from
\* some time on run has returned with the signal put out, on_finished has run
\* and the start button is enabled.
C24_RunTerminates ==
    /\ [](FinishedOnceAndLast(threads[1].out))
    /\ \/ <>(threads[1].pc = "raised")
       \/ <>[](/\ threads[1].pc = "returned"
               /\ Has_ev(threads[1].out, FinishedEv)
               /\ threads[1].signal = "handled"
               /\ start_btn)

\* A live run of two loops that was stopped has ended, and the window has
\* handled its finished signal.
C24_Witness ==
    /\ Len(threads) = 1
    /\ threads[1].pc = "returned" /\ threads[1].signal = "handled"
    /\ ~threads[1].simulation_mode /\ Has_ev(threads[1].out, OpenEv)
    /\ ~threads[1].is_running
    /\ threads[1].loop_count = 2
    /\ threads[1].stop_mark >= 4
    /\ start_btn /\ ~stop_btn

----------------------------------------------------------------------------
(* A shared recipe made private by another operator *)

\* C25: a save by an operator who is not the author, on a stored recipe that is
\* shared, with the checkbox off, is an update: the record keeps its author, is
\* stored unshared and is not in the operator's list afterwards, and its author
\* may modify and delete it.  Every save or delete by a non-author on a stored
\* unshared recipe returns at the permission check and changes nothing; no save
\* or delete by the author of a stored recipe does.
C25_PrivatisedByNonAuthor ==
    [][/\ (/\ result'.op = "save"
           /\ Targets(result'.id)
           /\ Target(result'.id).author # current_user
           /\ Target(result'.id).shared
           /\ ~result'.form.shared)
          => /\ result'.outcome = "updated"
             /\ Has(saved_recipes', result'.id)
             /\ LET after == Lookup(saved_recipes', result'.id)
                IN  /\ after.author = Target(result'.id).author
                    /\ ~after.shared
                    /\ CanModify(after, after.author)
                    /\ CanDelete(after, after.author)
             /\ result'.id \notin ListedIds'
       /\ (/\ result'.op \in {"save", "delete"}
           /\ Targets(result'.id)
           /\ Target(result'.id).author # current_user
           /\ ~Target(result'.id).shared)
          => /\ result'.outcome = "permission_denied"
             /\ UNCHANGED <<saved_recipes, recipes_json, history_csv>>
       /\ (/\ result'.op \in {"save", "delete"}
           /\ Targets(result'.id)
           /\ Target(result'.id).author = current_user)
          => result'.outcome \in {"updated", "deleted"}]_vars

\* Tom has made a recipe of Amy unshared by saving it, which is the only row of
\* the log, and has now been refused on that recipe, which his list does not
\* show.
C25_Witness ==
    /\ current_user = Tom
    /\ result.op \in {"save", "delete"}
    /\ result.outcome = "permission_denied"
    /\ Has(saved_recipes, result.id)
    /\ Lookup(saved_recipes, result.id).author = Amy
    /\ ~Lookup(saved_recipes, result.id).shared
    /\ Lookup(saved_recipes, result.id).speed = 1000
    /\ history_csv = <<LogRow(Tom, "Saved", NameA)>>
    /\ result.id \notin ListedIds

----------------------------------------------------------------------------
(* Specification of a run with the library and the queue changing under it *)

\* The library of one operator with one recipe, her recipe list, and the queues
\* a run is started on: the recipe, alone or followed by a wait.
RunStore == <<NativeA>>
RunList == refresh_recipe_list(RunStore, Amy)
RunDrop ==
    QueueItem(RunList[2].text, None,
              [id |-> RunList[2].data, rec |-> Lookup(RunStore, RunList[2].data)])
RunQueues == {<<RunDrop>>, <<RunDrop, QueueItem(WaitText(1), WaitData(1), None)>>}

\* The window right after start_process has started a simulated run.
InitRun ==
    \E queue \in RunQueues :
        LET built == ResolveQueue(queue, RunStore)
        IN  /\ phase = "open"
            /\ recipes_json = RunStore
            /\ users_json = <<Amy>>
            /\ history_csv = log_action(<<>>, Amy, StartedVerb(TRUE), Join(built.names))
            /\ saved_recipes = RunStore
            /\ users = <<Amy>>
            /\ current_user = Amy
            /\ recipe_list = RunList
            /\ issued = {IdOf(1)}
            /\ result = Result("start", None, None, NoForm, "started")
            /\ queue_list = queue
            /\ threads = <<MotorWorker(built.steps, 1, TRUE)>>
            /\ start_btn = FALSE
            /\ stop_btn = TRUE
            /\ SERIAL_AVAILABLE = TRUE

\* Changing the queue and the library while the thread runs.
NextRun ==
    \/ add_wait_step(1)
    \/ \E row \in -1..(MaxQueue - 1) : remove_queue_step(row)
    \/ clear_queue
    \/ \E cur \in ListedItems, s \in Settings :
          save_recipe(cur, NameA, s[1], s[2], s[3], FALSE)
    \/ \E cur \in ListedItems : delete_recipe(cur)
    \/ on_finished(1)
    \/ run(1)

SpecRun == InitRun /\ [][NextRun]_vars

IsPrefix(a, b) == Len(a) <= Len(b) /\ a = SubSeq(b, 1, Len(a))

\* C26: no step taken while a run is active (a change of the queue, a save or
\* delete of a recipe, a step of the thread itself) changes the step list or the
\* loop count the thread was started with, and what the thread puts out is the
\* notifications of that step list, with its speeds and durations.
C26_RunningStepsFixed ==
    [][\A i \in DOMAIN threads :
          Active(threads[i])
              => /\ i \in DOMAIN threads'
                 /\ threads'[i].recipe_steps = threads[i].recipe_steps
                 /\ threads'[i].loop_count = threads[i].loop_count
                 /\ IsPrefix(StepNotes(threads'[i].out),
                             RunNotes(threads[i].recipe_steps, 1, threads[i].loop_count))]_vars

\* The recipe was saved with another speed and the queue emptied after the
\* start, and the thread is counting down the step at the speed it was started
\* with.
C26_Witness ==
    /\ Len(threads) = 1
    /\ threads[1].pc = "spin_tick" /\ threads[1].t = 1
    /\ threads[1].recipe_steps[1].type = "spin"
    /\ threads[1].recipe_steps[1].speed = 2000
    /\ \E e \in Range(saved_recipes) : e.v.name = NameA /\ e.v.speed = 1000
    /\ queue_list = <<>>
    /\ Len(StepNotes(threads[1].out)) = 2

====
